---------------------------- MODULE Spec2Model ----------------------------
(***************************************************************************)
(* CareerIQ: the conversation history (chat_manager.py), the Gemini client *)
(* wrapper that normalises gateway responses (gemini_client.py) and the    *)
(* presentation-layer turn that drives both (app.py).                      *)
(*                                                                         *)
(* A Python str is a sequence of chunks.  A chunk is either one whitespace *)
(* character or a run of text that neither begins nor ends with            *)
(* whitespace, so str.strip() removes whole chunks from both ends.  The    *)
(* fixed user-facing texts are single chunks (their emoji prefix and long  *)
(* dashes are written in ASCII).                                           *)
(***************************************************************************)
EXTENDS Integers, Sequences, FiniteSets, TLC

VARIABLES
    session,      \* the ChatSession: messages, total_user_messages, total_tokens_used
    accepted,     \* history variable: the Message objects appended since creation / the last clear
    last_call,    \* history variable: the latest method call made on the session and its argument
    pc,           \* app.py: position inside main() / handle_user_message
    user_input,   \* app.py: the text handed to handle_user_message
    response,     \* what the gateway did for the latest chat.send_message
    reply,        \* the (text, tokens) pair send_message returned
    gateway,      \* what the gateway received: history, message and number of invocations
    turns,        \* number of handle_user_message runs started
    credential,   \* config.py: what os.getenv("GEMINI_API_KEY") returned
    api_ok        \* app.py: st.session_state.api_ok ("unset" before init_state has set it)

vars ==
    <<session, accepted, last_call, pc, user_input, response, reply, gateway, turns,
      credential, api_ok>>

-----------------------------------------------------------------------------
(* Bounds *)

MaxAccepted == 9      \* appends accepted between two clears (capacity + 1 reaches eviction)
MaxTokens == 2        \* |total_tokens_used| explored by direct update_token_count calls
MaxTurns == 2         \* handle_user_message runs explored
MaxLongTurns == 5     \* consecutive runs explored with few gateway outcomes (the fifth evicts)

-----------------------------------------------------------------------------
(* chat_manager.py *)

MAX_HISTORY_MESSAGES == 8

Whitespace == {" ", "\t", "\n"}

RECURSIVE LStrip(_)
LStrip(s) ==
    IF s # <<>> /\ Head(s) \in Whitespace THEN LStrip(Tail(s)) ELSE s

RECURSIVE RStrip(_)
RStrip(s) ==
    IF s # <<>> /\ s[Len(s)] \in Whitespace THEN RStrip(SubSeq(s, 1, Len(s) - 1)) ELSE s

\* str.strip()
Strip(s) == RStrip(LStrip(s))

\* "not content or not content.strip()"
IsBlankEmptyOnly(content) == content = <<>>
IsBlank(content) == content = <<>> \/ Strip(content) = <<>>

Message(role, content) == [role |-> role, content |-> content]

\* Message.to_dict
to_dict(msg) == [role |-> msg.role, parts |-> <<[text |-> msg.content]>>]

\* Message.to_display_dict
to_display_dict(msg) ==
    [role |-> IF msg.role = "user" THEN "user" ELSE "assistant", content |-> msg.content]

\* ChatSession()
NewChatSession ==
    [messages |-> <<>>, total_user_messages |-> 0, total_tokens_used |-> 0]

trim_history_no_trim(s) == s
trim_history_keep_oldest(s) ==
    IF Len(s.messages) > MAX_HISTORY_MESSAGES
    THEN [s EXCEPT !.messages = SubSeq(s.messages, 1, MAX_HISTORY_MESSAGES)]
    ELSE s
\* ChatSession._trim_history: messages = messages[-MAX_HISTORY_MESSAGES:]
trim_history(s) ==
    IF Len(s.messages) > MAX_HISTORY_MESSAGES
    THEN [s EXCEPT !.messages =
             SubSeq(s.messages, Len(s.messages) - MAX_HISTORY_MESSAGES + 1, Len(s.messages))]
    ELSE s

\* ChatSession.add_user_message
add_user_message(s, content) ==
    IF IsBlank(content)
    THEN s
    ELSE trim_history([s EXCEPT !.messages = Append(@, Message("user", Strip(content))),
                                !.total_user_messages = @ + 1])

add_model_message_counting(s, content) ==
    IF IsBlank(content)
    THEN s
    ELSE trim_history([s EXCEPT !.messages = Append(@, Message("model", Strip(content))),
                                !.total_user_messages = @ + 1])
\* ChatSession.add_model_message
add_model_message(s, content) ==
    IF IsBlank(content)
    THEN s
    ELSE trim_history([s EXCEPT !.messages = Append(@, Message("model", Strip(content)))])

\* ChatSession.get_history_for_api
get_history_for_api(s) == [i \in 1..Len(s.messages) |-> to_dict(s.messages[i])]

\* ChatSession.get_history_for_display
get_history_for_display(s) == [i \in 1..Len(s.messages) |-> to_display_dict(s.messages[i])]

\* ChatSession.update_token_count
update_token_count(s, tokens) == [s EXCEPT !.total_tokens_used = @ + tokens]

clear_keeps_tokens(s) == [s EXCEPT !.messages = <<>>, !.total_user_messages = 0]
\* ChatSession.clear
clear(s) == [messages |-> <<>>, total_user_messages |-> 0, total_tokens_used |-> 0]

\* ChatSession.is_empty
is_empty(s) == Len(s.messages) = 0

\* ChatSession.message_count
message_count(s) == Len(s.messages)

-----------------------------------------------------------------------------
(* config.py *)

\* os.getenv("GEMINI_API_KEY"): None, the empty string or a key
NoKey == [present |-> FALSE, value |-> <<>>]
EmptyKey == [present |-> TRUE, value |-> <<>>]
SomeKey == [present |-> TRUE, value |-> <<"AIza-key">>]

Credentials == {NoKey, EmptyKey, SomeKey}

KeyMissingNoneOnly(key) == ~key.present
\* "if not GEMINI_API_KEY: raise ValueError(...)"
KeyMissing(key) == ~key.present \/ key.value = <<>>

-----------------------------------------------------------------------------
(* prompt_manager.py and gemini_client.py *)

\* get_fallback_message()
get_fallback_message ==
    <<"(!) I'm having trouble responding right now.\nPlease try again in a moment. If the issue persists,\ncheck that your API key is configured correctly.">>

\* the texts send_message returns for InvalidArgument, ResourceExhausted, PermissionDenied
InvalidArgumentText ==
    <<"(!) There was an issue with the request format. Please try rephrasing your message.">>
ResourceExhaustedText ==
    <<"(!) I've hit my API usage limit for now. Please wait a moment and try again, or check your API quota.">>
PermissionDeniedText ==
    <<"(!) There's an authentication issue with the API key. Please verify your GEMINI_API_KEY in the .env file.">>

\* the texts _extract_response_text returns without reading the candidate's text
NoCandidatesText ==
    <<"I wasn't able to generate a response for that message. Could you try rephrasing it?">>
SafetyText ==
    <<"I'm not able to respond to that particular message. Please try asking something else about your career!">>
NoContentText == <<"I didn't generate a response. Please try again.">>

\* '"SAFETY" in str(candidate.finish_reason)' over the names of the FinishReason enum
IsSafety(finish_reason) == finish_reason = "SAFETY"

extract_response_text_no_safety(r) ==
    IF r.candidates = <<>>
    THEN NoCandidatesText
    ELSE LET candidate == r.candidates[1] IN
         IF candidate.content.present /\ candidate.content.parts # <<>>
         THEN IF candidate.content.parts[1].readable
              THEN candidate.content.parts[1].text
              ELSE get_fallback_message
         ELSE NoContentText
\* GeminiClient._extract_response_text; reading the text of an unreadable
\* part raises inside the try block
extract_response_text(r) ==
    IF r.candidates = <<>>
    THEN NoCandidatesText
    ELSE LET candidate == r.candidates[1] IN
         IF IsSafety(candidate.finish_reason)
         THEN SafetyText
         ELSE IF candidate.content.present /\ candidate.content.parts # <<>>
              THEN IF candidate.content.parts[1].readable
                   THEN candidate.content.parts[1].text
                   ELSE get_fallback_message
              ELSE NoContentText

extract_token_count_zero(r) == 0
\* GeminiClient._extract_token_count
extract_token_count(r) ==
    IF r.usage_metadata.kind = "total" THEN r.usage_metadata.total_token_count ELSE 0

send_message_appends(user_message, s, r) ==
    [session |-> [s EXCEPT !.messages = Append(@, Message("user", user_message))],
     history |-> get_history_for_api(s),
     message |-> user_message,
     calls   |-> 1,
     raised  |-> FALSE,
     text    |-> IF r.kind = "raise"
                 THEN CASE r.exc = "InvalidArgument"    -> InvalidArgumentText
                        [] r.exc = "ResourceExhausted"  -> ResourceExhaustedText
                        [] r.exc = "PermissionDenied"   -> PermissionDeniedText
                        [] r.exc = "ServiceUnavailable" -> get_fallback_message
                        [] OTHER                        -> get_fallback_message
                 ELSE extract_response_text(r),
     tokens  |-> IF r.kind = "raise" THEN 0 ELSE extract_token_count(r)]
send_message_uncaught(user_message, s, r) ==
    [session |-> s,
     history |-> get_history_for_api(s),
     message |-> user_message,
     calls   |-> 1,
     raised  |-> r.kind = "raise" /\ r.exc = "Exception",
     text    |-> IF r.kind = "raise"
                 THEN CASE r.exc = "InvalidArgument"    -> InvalidArgumentText
                        [] r.exc = "ResourceExhausted"  -> ResourceExhaustedText
                        [] r.exc = "PermissionDenied"   -> PermissionDeniedText
                        [] r.exc = "ServiceUnavailable" -> get_fallback_message
                        [] OTHER                        -> get_fallback_message
                 ELSE extract_response_text(r),
     tokens  |-> IF r.kind = "raise" THEN 0 ELSE extract_token_count(r)]
\* GeminiClient.send_message: what it leaves in the session it was given,
\* what it hands to the gateway, how often it invokes the gateway, whether an
\* exception leaves it, and the pair it returns
send_message(user_message, s, r) ==
    [session |-> s,
     history |-> get_history_for_api(s),
     message |-> user_message,
     calls   |-> 1,
     raised  |-> FALSE,
     text    |-> IF r.kind = "raise"
                 THEN CASE r.exc = "InvalidArgument"    -> InvalidArgumentText
                        [] r.exc = "ResourceExhausted"  -> ResourceExhaustedText
                        [] r.exc = "PermissionDenied"   -> PermissionDeniedText
                        [] r.exc = "ServiceUnavailable" -> get_fallback_message
                        [] OTHER                        -> get_fallback_message
                 ELSE extract_response_text(r),
     tokens  |-> IF r.kind = "raise" THEN 0 ELSE extract_token_count(r)]

-----------------------------------------------------------------------------
(* The gateway: every outcome of model.start_chat(...).send_message(...) *)

Exceptions ==
    {"InvalidArgument", "ResourceExhausted", "PermissionDenied", "ServiceUnavailable",
     "Exception"}

FinishReasons == {"STOP", "SAFETY"}

CandidateTexts == { <<"Hello">>, <<" ", "Hello", "\n">>, <<" ">>, <<>> }

NoUsage == [kind |-> "missing", total_token_count |-> 0]

UsageMetadata ==
    { NoUsage,
      [kind |-> "no_total", total_token_count |-> 0],
      [kind |-> "total", total_token_count |-> 42] }

Parts ==
    { <<>>, <<[readable |-> FALSE, text |-> <<>>]>> }
        \cup { <<[readable |-> TRUE, text |-> t]>> : t \in CandidateTexts }

CandidateContents ==
    { [present |-> FALSE, parts |-> <<>>] } \cup { [present |-> TRUE, parts |-> p] : p \in Parts }

Candidates == [finish_reason : FinishReasons, content : CandidateContents]

Responses ==
    { [kind |-> "raise", exc |-> e, candidates |-> <<>>, usage_metadata |-> NoUsage] :
          e \in Exceptions }
    \cup
    { [kind |-> "ok", exc |-> "", candidates |-> c, usage_metadata |-> u] :
          c \in {<<>>} \cup { <<cand>> : cand \in Candidates }, u \in UsageMetadata }

NoResponse == [kind |-> "none", exc |-> "", candidates |-> <<>>, usage_metadata |-> NoUsage]

-----------------------------------------------------------------------------
(* Calls made directly on a ChatSession *)

\* arguments of add_user_message / add_model_message
Contents ==
    { <<>>, <<" ">>, <<"\n", "\t">>,
      <<"plan", " ", "ahead">>, <<" ", "plan", " ", "ahead", "\n">> }

\* arguments of update_token_count
TokenInputs == {-1, 0, 1}

NoCall == [op |-> "none", arg |-> <<>>]
NoReply == [text |-> <<>>, tokens |-> 0]
NoGateway == [calls |-> 0, history |-> <<>>, message |-> <<>>]

AppIdle ==
    /\ pc = "idle" /\ user_input = <<>> /\ response = NoResponse
    /\ reply = NoReply /\ gateway = NoGateway /\ turns = 0
    /\ credential = SomeKey /\ api_ok = "true"

Init ==
    /\ session = NewChatSession
    /\ accepted = <<>>
    /\ last_call = NoCall
    /\ AppIdle

AppUnchanged ==
    UNCHANGED <<pc, user_input, response, reply, gateway, turns, credential, api_ok>>

AddUserMessage ==
    \E content \in Contents :
        /\ Len(accepted) < MaxAccepted
        /\ session' = add_user_message(session, content)
        /\ accepted' = IF IsBlank(content) THEN accepted
                       ELSE Append(accepted, Message("user", Strip(content)))
        /\ last_call' = [op |-> "add_user_message", arg |-> content]
        /\ AppUnchanged

AddModelMessage ==
    \E content \in Contents :
        /\ Len(accepted) < MaxAccepted
        /\ session' = add_model_message(session, content)
        /\ accepted' = IF IsBlank(content) THEN accepted
                       ELSE Append(accepted, Message("model", Strip(content)))
        /\ last_call' = [op |-> "add_model_message", arg |-> content]
        /\ AppUnchanged

UpdateTokenCount ==
    \E tokens \in TokenInputs :
        /\ session.total_tokens_used + tokens \in -MaxTokens..MaxTokens
        /\ session' = update_token_count(session, tokens)
        /\ last_call' = [op |-> "update_token_count", arg |-> <<tokens>>]
        /\ UNCHANGED accepted
        /\ AppUnchanged

Clear ==
    /\ session' = clear(session)
    /\ accepted' = <<>>
    /\ last_call' = [op |-> "clear", arg |-> <<>>]
    /\ AppUnchanged

Next == AddUserMessage \/ AddModelMessage \/ UpdateTokenCount \/ Clear

Spec == Init /\ [][Next]_vars

-----------------------------------------------------------------------------
(* app.py: main() with a constructed client *)

\* what st.chat_input hands over ("if user_input:")
UserInputs == { <<"review", " ", "my", " ", "resume">>, <<" ", "hello", "\n">> }

\* handle_user_message: session.add_user_message(text)
HandleUserMessageAddUpTo(limit) ==
    \E text \in UserInputs :
        /\ pc = "idle"
        /\ turns < limit
        /\ session' = add_user_message(session, text)
        /\ accepted' = IF IsBlank(text) THEN accepted
                       ELSE Append(accepted, Message("user", Strip(text)))
        /\ last_call' = [op |-> "add_user_message", arg |-> text]
        /\ user_input' = text
        /\ turns' = turns + 1
        /\ pc' = "send"
        /\ UNCHANGED <<response, reply, gateway, credential, api_ok>>

HandleUserMessageAdd == HandleUserMessageAddUpTo(MaxTurns)

\* handle_user_message: reply, tokens = client.send_message(text, session)
HandleUserMessageSendWith(responses) ==
    \E r \in responses :
        LET out == send_message(user_input, session, r) IN
            /\ pc = "send"
            /\ session' = out.session
            /\ response' = r
            /\ reply' = [text |-> out.text, tokens |-> out.tokens]
            /\ gateway' = [calls |-> out.calls, history |-> out.history,
                           message |-> out.message]
            /\ pc' = IF out.raised THEN "crashed" ELSE "commit"
            /\ UNCHANGED <<accepted, last_call, user_input, turns, credential, api_ok>>

HandleUserMessageSend == HandleUserMessageSendWith(Responses)

\* handle_user_message: session.add_model_message(reply);
\* session.update_token_count(tokens); then the rerun drops the locals
HandleUserMessageCommit ==
    /\ pc = "commit"
    /\ session' = update_token_count(add_model_message(session, reply.text), reply.tokens)
    /\ accepted' = IF IsBlank(reply.text) THEN accepted
                   ELSE Append(accepted, Message("model", Strip(reply.text)))
    /\ last_call' = [op |-> "update_token_count", arg |-> <<reply.tokens>>]
    /\ user_input' = <<>>
    /\ response' = NoResponse
    /\ reply' = NoReply
    /\ gateway' = NoGateway
    /\ pc' = "idle"
    /\ UNCHANGED <<turns, credential, api_ok>>

\* render_sidebar: the "Clear Conversation" button, drawn before main()
\* tests api_ok; st.rerun() runs the script again
ClearConversation ==
    /\ pc \in {"idle", "stopped"}
    /\ session' = clear(session)
    /\ accepted' = <<>>
    /\ last_call' = [op |-> "clear", arg |-> <<>>]
    /\ pc' = IF pc = "stopped" THEN "start" ELSE pc
    /\ UNCHANGED <<user_input, response, reply, gateway, turns, credential, api_ok>>

NextApp ==
    HandleUserMessageAdd \/ HandleUserMessageSend \/ HandleUserMessageCommit
        \/ ClearConversation

SpecApp == Init /\ [][NextApp]_vars

-----------------------------------------------------------------------------
(* app.py: consecutive turns that all store a reply *)

\* gateway outcomes for which send_message returns a non-empty text
RepliedResponses ==
    { r \in Responses :
        \/ r.kind = "raise" /\ r.exc \in {"ServiceUnavailable", "ResourceExhausted"}
        \/ /\ r.kind = "ok"
           /\ r.usage_metadata.kind = "total"
           /\ r.candidates # <<>>
           /\ r.candidates[1].finish_reason = "STOP"
           /\ r.candidates[1].content.present
           /\ r.candidates[1].content.parts # <<>>
           /\ r.candidates[1].content.parts[1].readable
           /\ r.candidates[1].content.parts[1].text = <<"Hello">> }

HandleUserMessageAddLong == HandleUserMessageAddUpTo(MaxLongTurns)

HandleUserMessageSendReplied == HandleUserMessageSendWith(RepliedResponses)

NextTurns ==
    HandleUserMessageAddLong \/ HandleUserMessageSendReplied \/ HandleUserMessageCommit

SpecTurns == Init /\ [][NextTurns]_vars

-----------------------------------------------------------------------------
(* app.py from the first script run: imports, init_state, the api_ok test *)

InitMain ==
    /\ session = NewChatSession
    /\ accepted = <<>>
    /\ last_call = NoCall
    /\ pc = "start" /\ user_input = <<>> /\ response = NoResponse
    /\ reply = NoReply /\ gateway = NoGateway /\ turns = 0
    /\ credential \in Credentials
    /\ api_ok = "unset"

\* One run of the script up to the api_ok test.  Importing gemini_client
\* imports config, whose key check raises before anything of the app has
\* run.  With a key, init_state builds the client unless one is already in
\* session_state; GeminiClient.__init__ re-raises whatever the library
\* raises, init_state records that as api_ok = False and main() stops.
RunScript ==
    /\ pc = "start"
    /\ IF KeyMissing(credential)
       THEN /\ pc' = "aborted"
            /\ UNCHANGED api_ok
       ELSE \E init_raises \in BOOLEAN :
               /\ api_ok' = IF api_ok = "true" THEN "true"
                             ELSE IF init_raises THEN "false" ELSE "true"
               /\ pc' = IF api_ok' = "true" THEN "idle" ELSE "stopped"
    /\ UNCHANGED <<session, accepted, last_call, user_input, response, reply, gateway,
                   turns, credential>>

\* the page is loaded again after the script ended early
Rerun ==
    /\ pc \in {"aborted", "stopped"}
    /\ pc' = "start"
    /\ UNCHANGED <<session, accepted, last_call, user_input, response, reply, gateway,
                   turns, credential, api_ok>>

NextMain == RunScript \/ Rerun \/ NextApp

SpecMain == InitMain /\ [][NextMain]_vars

-----------------------------------------------------------------------------
(* Properties of the ChatSession, checked under Spec *)

RoleCount(log, role) == Cardinality({i \in DOMAIN log : log[i].role = role})

LastN(log, n) == SubSeq(log, Len(log) - n + 1, Len(log))

Min(a, b) == IF a < b THEN a ELSE b

AppendOps == {"add_user_message", "add_model_message"}

\* t has no leading or trailing whitespace and s is t wrapped in whitespace only
IsTrimmedFormOf(t, s) ==
    /\ t # <<>> => (t[1] \notin Whitespace /\ t[Len(t)] \notin Whitespace)
    /\ \E i \in 0..Len(s) : \E j \in i..Len(s) :
          /\ t = SubSeq(s, i + 1, j)
          /\ \A k \in 1..i : s[k] \in Whitespace
          /\ \A k \in (j + 1)..Len(s) : s[k] \in Whitespace

\* C1: after every add_user_message, add_model_message, update_token_count
\* and clear on a session that started empty, at most MAX_HISTORY_MESSAGES
\* (8) messages are stored.
C1_HistoryBounded == Len(session.messages) <= MAX_HISTORY_MESSAGES

\* the ninth accepted append has happened and the history sits at capacity
C1_Witness ==
    /\ Len(accepted) = MAX_HISTORY_MESSAGES + 1
    /\ last_call.op \in AppendOps
    /\ Len(session.messages) = MAX_HISTORY_MESSAGES

\* C2: eviction is FIFO and order-preserving: the stored messages are the
\* most recent min(k, capacity) accepted messages in their original order;
\* after capacity + 1 accepted appends they are the 2nd..(capacity+1)th, and
\* the newest accepted message is always the last one stored.
C2_FifoEviction ==
    /\ session.messages = LastN(accepted, Min(Len(accepted), MAX_HISTORY_MESSAGES))
    /\ Len(accepted) = MAX_HISTORY_MESSAGES + 1
          => session.messages = SubSeq(accepted, 2, MAX_HISTORY_MESSAGES + 1)
    /\ accepted # <<>>
          => session.messages[Len(session.messages)] = accepted[Len(accepted)]

\* capacity + 1 appends were accepted, the first of a different role than the second
C2_Witness ==
    /\ Len(accepted) = MAX_HISTORY_MESSAGES + 1
    /\ accepted[1].role = "user"
    /\ accepted[2].role = "model"
    /\ session.messages[1].role = "model"

\* C3: total_user_messages is the number of accepted add_user_message calls
\* since creation or the last clear, whatever eviction removed; it is left
\* alone by add_model_message and update_token_count and only clear lowers it.
C3_CountIsAcceptedUserCalls ==
    session.total_user_messages = RoleCount(accepted, "user")

C3_CountStep ==
    /\ last_call'.op \in {"add_model_message", "update_token_count"}
          => session'.total_user_messages = session.total_user_messages
    /\ last_call'.op # "clear"
          => session'.total_user_messages >= session.total_user_messages

C3_UserMessageCount == []C3_CountIsAcceptedUserCalls /\ [][C3_CountStep]_vars

\* nine user messages accepted, one of them evicted, then a model message added
C3_Witness ==
    /\ session.total_user_messages = MAX_HISTORY_MESSAGES
    /\ RoleCount(session.messages, "user") < session.total_user_messages
    /\ last_call.op = "add_model_message"
    /\ ~IsBlank(last_call.arg)

\* C4: add_user_message / add_model_message with an empty or whitespace-only
\* string changes nothing in the session, and every stored message has
\* non-empty content that is the trimmed form of the string it was added with.
C4_BlankStep ==
    (/\ last_call'.op \in AppendOps
     /\ \A k \in DOMAIN last_call'.arg : last_call'.arg[k] \in Whitespace)
        => session' = session

C4_StoredTrimmed ==
    /\ \A i \in DOMAIN session.messages :
          LET c == session.messages[i].content IN
              c # <<>> /\ c[1] \notin Whitespace /\ c[Len(c)] \notin Whitespace
    /\ (/\ last_call.op \in AppendOps
        /\ \E k \in DOMAIN last_call.arg : last_call.arg[k] \notin Whitespace)
          => IsTrimmedFormOf(session.messages[Len(session.messages)].content,
                             last_call.arg)

C4_BlankIsNoOp == []C4_StoredTrimmed /\ [][C4_BlankStep]_vars

\* a whitespace-only add_user_message was made on a session holding messages
C4_Witness ==
    /\ last_call = [op |-> "add_user_message", arg |-> <<"\n", "\t">>]
    /\ Len(session.messages) = 3
    /\ session.total_user_messages = 2
    /\ session.total_tokens_used = 1

\* C5: clear() leaves no messages and both counters 0, so is_empty() holds
\* right after it; is_empty() holds exactly when no message is stored, and
\* an accepted append leaves the session non-empty.
C5_ClearStep ==
    /\ last_call'.op = "clear"
          => /\ session'.messages = <<>>
             /\ session'.total_user_messages = 0
             /\ session'.total_tokens_used = 0
             /\ is_empty(session')
    /\ (last_call'.op \in AppendOps /\ ~IsBlank(last_call'.arg))
          => ~is_empty(session')

C5_ClearResets ==
    /\ [](is_empty(session) <=> message_count(session) = 0)
    /\ [](is_empty(session) <=> accepted = <<>>)
    /\ [][C5_ClearStep]_vars

\* clear() was called on a session with messages and a token total
C5_Witness ==
    /\ last_call.op = "clear"
    /\ is_empty(session)
    /\ session.total_tokens_used = 0

\* C11: update_token_count(n) with n < 0 is rejected and leaves
\* total_tokens_used as it was, so total_tokens_used is never negative and
\* never decreases in any operation other than clear.
C11_TokenStep ==
    /\ (last_call'.op = "update_token_count" /\ last_call'.arg[1] < 0)
          => session'.total_tokens_used = session.total_tokens_used
    /\ last_call'.op # "clear"
          => session'.total_tokens_used >= session.total_tokens_used
    /\ session'.total_tokens_used >= 0

-----------------------------------------------------------------------------
(* Properties of send_message, checked under SpecApp *)

Returned == pc = "commit"

FirstCandidate == response.candidates[1]

HasReadableText(candidate) ==
    /\ candidate.content.present
    /\ candidate.content.parts # <<>>
    /\ candidate.content.parts[1].readable

\* a candidate that is not suppressed and whose first part holds text that
\* is not empty or whitespace-only
UsableText ==
    /\ response.kind = "ok"
    /\ response.candidates # <<>>
    /\ FirstCandidate.finish_reason # "SAFETY"
    /\ HasReadableText(FirstCandidate)
    /\ \E k \in DOMAIN FirstCandidate.content.parts[1].text :
          FirstCandidate.content.parts[1].text[k] \notin Whitespace

\* C6: when the gateway call fails, in every failure category send_message
\* returns exactly (fallback message, 0).
C6_UniformFallback ==
    (Returned /\ response.kind = "raise")
        => (reply.text = get_fallback_message /\ reply.tokens = 0)

\* C7: the returned token count is 0 whenever the returned text is not model
\* output (no candidates, safety suppression, or text extraction raised),
\* also when the response carries usage metadata with a positive total.
C7_NoTokensWithoutModelOutput ==
    (/\ Returned
     /\ response.kind = "ok"
     /\ \/ response.candidates = <<>>
        \/ FirstCandidate.finish_reason = "SAFETY"
        \/ (/\ FirstCandidate.content.present
            /\ FirstCandidate.content.parts # <<>>
            /\ ~FirstCandidate.content.parts[1].readable))
        => reply.tokens = 0

\* C8: for a successful gateway call the first matching rule decides the
\* text: no candidates gives the "no candidates" apology; otherwise a first
\* candidate finished for SAFETY gives the "can't respond" apology and never
\* the candidate's own text; the two apologies and the fallback all differ.
C8_TextPriority ==
    /\ NoCandidatesText # SafetyText
    /\ NoCandidatesText # get_fallback_message
    /\ SafetyText # get_fallback_message
    /\ (Returned /\ response.kind = "ok") =>
          /\ response.candidates = <<>> => reply.text = NoCandidatesText
          /\ (response.candidates # <<>> /\ FirstCandidate.finish_reason = "SAFETY")
                => /\ reply.text = SafetyText
                   /\ HasReadableText(FirstCandidate)
                         => reply.text # FirstCandidate.content.parts[1].text

\* a suppressed candidate that carries readable text was answered with the apology
C8_Witness ==
    /\ Returned
    /\ response.kind = "ok"
    /\ response.candidates # <<>>
    /\ FirstCandidate.finish_reason = "SAFETY"
    /\ HasReadableText(FirstCandidate)
    /\ FirstCandidate.content.parts[1].text = <<"Hello">>
    /\ reply.text = SafetyText

\* C9 as stated: a non-suppressed candidate with usable text makes
\* send_message return (trimmed text, reported total token count or 0), the
\* text non-empty and free of leading and trailing whitespace.
C9_TrimmedText ==
    (Returned /\ UsableText) =>
        /\ reply.text = Strip(FirstCandidate.content.parts[1].text)
        /\ reply.text # <<>>
        /\ reply.text[1] \notin Whitespace
        /\ reply.text[Len(reply.text)] \notin Whitespace
        /\ reply.tokens = IF response.usage_metadata.kind = "total"
                          THEN response.usage_metadata.total_token_count ELSE 0

\* C9 as amended: a non-suppressed candidate with usable text makes
\* send_message return the candidate's text exactly as the gateway reported
\* it (non-empty, whitespace around it kept) with the reported total token
\* count, 0 when no total is reported; "Hello" with 42 tokens gives ("Hello", 42).
C9_ReportedText ==
    (Returned /\ UsableText) =>
        /\ reply.text = FirstCandidate.content.parts[1].text
        /\ reply.text # <<>>
        /\ reply.tokens = IF response.usage_metadata.kind = "total"
                          THEN response.usage_metadata.total_token_count ELSE 0
        /\ (/\ FirstCandidate.content.parts[1].text = <<"Hello">>
            /\ response.usage_metadata = [kind |-> "total", total_token_count |-> 42])
              => reply = [text |-> <<"Hello">>, tokens |-> 42]

\* "Hello" with 42 reported tokens came back as ("Hello", 42)
C9_Witness ==
    /\ Returned
    /\ UsableText
    /\ FirstCandidate.content.parts[1].text = <<"Hello">>
    /\ response.usage_metadata.total_token_count = 42
    /\ reply = [text |-> <<"Hello">>, tokens |-> 42]

\* C10: send_message leaves the session it is given as it was, for every
\* gateway outcome; the session changes only in the caller's
\* add_user_message, add_model_message / update_token_count and clear.
C10_SendStep ==
    /\ pc = "send" => session' = session
    /\ session' # session => pc \in {"idle", "commit"}

C10_SessionNotMutated == [][C10_SendStep]_vars

\* send_message returned after handing a non-empty history to the gateway
C10_Witness ==
    /\ Returned
    /\ gateway.calls = 1
    /\ gateway.history # <<>>
    /\ Len(gateway.history) = Len(session.messages)
    /\ session.total_tokens_used > 0

-----------------------------------------------------------------------------
(* Properties of the start-up, checked under SpecMain *)

\* C13: with an absent or empty credential the client is never built: the
\* failure comes before any network attempt, and on every run of the script
\* the app ends before it takes user input, so no gateway call is ever made;
\* a session whose api_ok is not True has no send_message in progress.
C13_NoCallWithoutCredential ==
    /\ (~credential.present \/ credential.value = <<>>) =>
          /\ pc \in {"start", "aborted"}
          /\ api_ok # "true"
          /\ gateway = NoGateway
          /\ response = NoResponse
          /\ turns = 0
    /\ api_ok # "true" =>
          /\ pc \in {"start", "aborted", "stopped"}
          /\ gateway = NoGateway

\* the script ran with the empty string as credential and ended at the key check
C13_Witness ==
    /\ credential = EmptyKey
    /\ pc = "aborted"
    /\ api_ok = "unset"
    /\ gateway.calls = 0

-----------------------------------------------------------------------------
(* Properties of the turn: what send_message hands to the gateway *)

\* the API view of the messages the session held before the current
\* handle_user_message run appended its user message
PriorTurns ==
    LET before == SubSeq(accepted, 1, Len(accepted) - 1) IN
        [i \in 1..Min(Len(before), MAX_HISTORY_MESSAGES) |->
            to_dict(LastN(before, Min(Len(before), MAX_HISTORY_MESSAGES))[i])]

\* C14: in a turn the history send_message passes to the gateway holds the
\* prior turns only, without the current user message, so the new user text
\* reaches the gateway once: as the message sent, not as the last history entry.
C14_HistoryExcludesCurrent ==
    Returned =>
        /\ gateway.message = user_input
        /\ gateway.history = PriorTurns
        /\ (accepted # <<>> /\ Len(accepted) = 1) => gateway.history = <<>>

=============================================================================
